---- MODULE Spec2Model ----
(***************************************************************************)
(* Model of app.py, the room rental tracker.  The script is re-executed    *)
(* from the top on every interaction: it loads the two CSV files, runs at  *)
(* most one form handler (edit_form or payment_form), and then renders     *)
(* the payment history, the monthly profit summary and the per-room        *)
(* totals.  The persisted state is the content of the two files; the       *)
(* in-memory state is the two dataframes of the current run.               *)
(*                                                                         *)
(* Modelling choices:                                                      *)
(*  - a Timestamp is its calendar day [y, m, d];                           *)
(*  - money is a whole number (the amounts drawn are multiples of the      *)
(*    months they are divided by, so that amount / months is exact);       *)
(*  - of the room's columns, "Tenant Name" stands for the free-text        *)
(*    columns (Contact Info, Notes are handled by the same lines) and      *)
(*    "Due Date" for the date columns;                                     *)
(*  - DataFrame.to_csv either writes the whole file or raises before       *)
(*    writing; an exception ends the run (the script has no try/except     *)
(*    around its handlers).                                                *)
(***************************************************************************)
EXTENDS Integers, Sequences, FiniteSets, TLC

VARIABLES pc, data_file, payments_file, df, payments_df, extraCols,
          selected_room_for_history, history, monthly_profit, lastOp,
          dueAfterPayment

vars == <<pc, data_file, payments_file, df, payments_df, extraCols,
          selected_room_for_history, history, monthly_profit, lastOp,
          dueAfterPayment>>

(* ---------------------------- bounds ----------------------------------- *)
MaxPayments == 2

(* ------------------------ program constants ---------------------------- *)
NumRooms == 5
MinMonths == 1
MaxMonths == 24
MinAmount == 0

(* ------------------------------ dates ---------------------------------- *)
D(y, m, d) == [y |-> y, m |-> m, d |-> d]

NoDate == [y |-> 0, m |-> 0, d |-> 0]

DateLE(a, b) ==
    \/ a.y < b.y
    \/ a.y = b.y /\ a.m < b.m
    \/ a.y = b.y /\ a.m = b.m /\ a.d <= b.d

IsLeap(y) == y % 4 = 0 /\ (y % 100 # 0 \/ y % 400 = 0)

DaysInMonth(y, m) ==
    IF m = 2 THEN (IF IsLeap(y) THEN 29 ELSE 28)
    ELSE IF m \in {4, 6, 9, 11} THEN 30 ELSE 31

Min(a, b) == IF a <= b THEN a ELSE b

AddMonthsNoClamp(date, n) ==
    LET t == (date.m - 1) + n
    IN  D(date.y + t \div 12, (t % 12) + 1, date.d)

\* current_due_date + pd.DateOffset(months=n)
AddMonths(date, n) ==
    LET t  == (date.m - 1) + n
        yy == date.y + t \div 12
        mm == (t % 12) + 1
    IN  D(yy, mm, Min(date.d, DaysInMonth(yy, mm)))

(* --------------------------- CSV cells --------------------------------- *)
\* the missing value read_csv produces for an empty cell
NaN == "NaN"

\* to_csv writes a missing value as an empty cell
ToCsvText(v) == IF v = NaN THEN "" ELSE v

\* read_csv (default na_values) reads an empty cell as a missing value
FromCsvText(c) == IF c = "" THEN NaN ELSE c

ToCsvRooms(rooms) ==
    [i \in 1..Len(rooms) |-> [rooms[i] EXCEPT !.tenant = ToCsvText(@)]]

FromCsvRooms(rows) ==
    [i \in 1..Len(rows) |-> [rows[i] EXCEPT !.tenant = FromCsvText(@)]]

(* ----------------------------- inputs ---------------------------------- *)
RoomNames == <<"Room 1", "Room 2", "Room 3", "Room 4", "Room 5">>

RoomName(i) == RoomNames[i]

\* the rooms the user selects in the forms
InputRooms == {RoomName(1), RoomName(2)}

\* the value of pd.Timestamp.today() on the first run
Todays == {D(2024, 1, 31)}

\* what the user submits in edit_form
EditInputs ==
    { [tenant |-> "An", rent |-> 3000000, paid |-> 500000,
       contract |-> "3 months", due |-> D(2024, 1, 1)],
      [tenant |-> "", rent |-> 0, paid |-> 0,
       contract |-> "1 month", due |-> D(2024, 1, 31)] }

\* what the user submits in payment_form: the widgets accept
\* amount >= MinAmount and MinMonths <= months <= MaxMonths
PaymentInputs ==
    { p \in { [date |-> D(2024, 3, 10), amount |-> 1200000, months |-> 3],
              [date |-> D(2024, 1, 15), amount |-> 1000000, months |-> 1],
              [date |-> D(2024, 3, 10), amount |-> 0,       months |-> 1],
              [date |-> D(2024, 4, 2),  amount |-> 2400000, months |-> 24] } :
        /\ p.amount >= MinAmount
        /\ p.months >= MinMonths /\ p.months <= MaxMonths }

(* ---------------------------- load_data -------------------------------- *)
DefaultRooms(today) ==
    [i \in 1..NumRooms |->
        [room |-> RoomName(i), tenant |-> "", rent |-> 0, paid |-> 0,
         contract |-> "1 month", due |-> today]]

RoomIndex(rooms, name) ==
    CHOOSE i \in 1..Len(rooms) :
        /\ rooms[i].room = name
        /\ \A j \in 1..(i - 1) : rooms[j].room # name

EmptyMap == [k \in {} |-> 0]

NoOp == [op |-> "none", room |-> "", date |-> NoDate, amount |-> 0,
         months |-> 0, outcome |-> "none"]

Init ==
    /\ pc = "start"
    /\ data_file = [exists |-> FALSE, rows |-> <<>>]
    /\ payments_file = [exists |-> FALSE, rows |-> <<>>, extra |-> FALSE]
    /\ df = <<>>
    /\ payments_df = <<>>
    /\ extraCols = FALSE
    /\ selected_room_for_history = ""
    /\ history = <<>>
    /\ monthly_profit = EmptyMap
    /\ lastOp = NoOp
    /\ dueAfterPayment = [i \in 1..NumRooms |-> NoDate]

\* df = load_data(); payments_df = load_payments()
Load ==
    /\ pc \in {"start", "done", "aborted"}
    /\ \E today \in Todays :
         IF data_file.exists
         THEN /\ df' = FromCsvRooms(data_file.rows)
              /\ data_file' = data_file
         ELSE /\ df' = DefaultRooms(today)
              /\ data_file' = [exists |-> TRUE,
                               rows |-> ToCsvRooms(DefaultRooms(today))]
    /\ IF payments_file.exists
       THEN /\ payments_df' = payments_file.rows
            /\ extraCols' = payments_file.extra
            /\ payments_file' = payments_file
       ELSE /\ payments_df' = <<>>
            /\ extraCols' = FALSE
            /\ payments_file' = [exists |-> TRUE, rows |-> <<>>, extra |-> FALSE]
    /\ selected_room_for_history' = ""
    /\ history' = <<>>
    /\ monthly_profit' = EmptyMap
    /\ lastOp' = [NoOp EXCEPT !.op = "load"]
    /\ pc' = "loaded"
    /\ UNCHANGED dueAfterPayment

(* ----------------------------- edit_form ------------------------------- *)
\* df.at[idx, ...] = ... for every column of the form
EditedRooms(rooms, name, e) ==
    LET idx == RoomIndex(rooms, name)
    IN  [rooms EXCEPT ![idx] = [@ EXCEPT !.tenant = e.tenant,
                                         !.rent = e.rent,
                                         !.paid = e.paid,
                                         !.contract = e.contract,
                                         !.due = e.due]]

\* if submitted: ... save_data(df)
EditRoom ==
    /\ pc = "loaded"
    /\ \E name \in InputRooms, e \in EditInputs :
         /\ df' = EditedRooms(df, name, e)
         /\ data_file' = [exists |-> TRUE, rows |-> ToCsvRooms(df')]
         /\ lastOp' = [NoOp EXCEPT !.op = "edit", !.room = name, !.outcome = "ok"]
    /\ pc' = "handled"
    /\ UNCHANGED <<payments_file, payments_df, extraCols,
                   selected_room_for_history, history,
                   monthly_profit, dueAfterPayment>>

\* save_data(df) raises: the run ends, the file keeps its content
EditRoomSaveFails ==
    /\ pc = "loaded"
    /\ \E name \in InputRooms, e \in EditInputs :
         /\ df' = EditedRooms(df, name, e)
         /\ lastOp' = [NoOp EXCEPT !.op = "edit", !.room = name,
                                   !.outcome = "ledger_write_failed"]
    /\ pc' = "aborted"
    /\ UNCHANGED <<data_file, payments_file, payments_df, extraCols,
                   selected_room_for_history, history,
                   monthly_profit, dueAfterPayment>>

(* ---------------------------- payment_form ----------------------------- *)
NewPayment(name, p) ==
    [room |-> name, date |-> p.date, amount |-> p.amount, months |-> p.months]

ConcatReplacing(rows, new) == <<new>>

\* pd.concat([payments_df, pd.DataFrame([new_payment])], ignore_index=True)
Concat(rows, new) == Append(rows, new)

\* df.at[idx, "Amount Paid"] += payment_amount;
\* df.at[idx, "Due Date"] = current_due_date + DateOffset(months)
AppliedRooms(rooms, name, p) ==
    LET idx == RoomIndex(rooms, name)
    IN  [rooms EXCEPT ![idx] = [@ EXCEPT !.paid = @ + p.amount,
                                         !.due = AddMonths(@, p.months)]]

PayOp(name, p, outcome) ==
    [op |-> "pay", room |-> name, date |-> p.date, amount |-> p.amount,
     months |-> p.months, outcome |-> outcome]

\* if payment_submitted: the whole handler, both files written
RecordPayment ==
    /\ pc = "loaded"
    /\ Len(payments_df) < MaxPayments
    /\ \E name \in InputRooms, p \in PaymentInputs :
         /\ payments_df' = Concat(payments_df, NewPayment(name, p))
         /\ payments_file' = [exists |-> TRUE, rows |-> payments_df',
                              extra |-> extraCols]
         /\ df' = AppliedRooms(df, name, p)
         /\ data_file' = [exists |-> TRUE, rows |-> ToCsvRooms(df')]
         /\ dueAfterPayment' =
              [dueAfterPayment EXCEPT ![RoomIndex(df, name)] =
                  df'[RoomIndex(df, name)].due]
         /\ lastOp' = PayOp(name, p, "ok")
    /\ pc' = "handled"
    /\ UNCHANGED <<extraCols,
                   selected_room_for_history, history, monthly_profit>>

\* save_payments(payments_df) raises: nothing after line 140 runs
RecordPaymentJournalFails ==
    /\ pc = "loaded"
    /\ Len(payments_df) < MaxPayments
    /\ \E name \in InputRooms, p \in PaymentInputs :
         /\ payments_df' = Concat(payments_df, NewPayment(name, p))
         /\ lastOp' = PayOp(name, p, "journal_write_failed")
    /\ pc' = "aborted"
    /\ UNCHANGED <<data_file, payments_file, df, extraCols,
                   selected_room_for_history, history,
                   monthly_profit, dueAfterPayment>>

\* save_payments succeeded, then save_data(df) raises (or the process
\* stops between the two writes): the journal keeps the payment
RecordPaymentLedgerFails ==
    /\ pc = "loaded"
    /\ Len(payments_df) < MaxPayments
    /\ \E name \in InputRooms, p \in PaymentInputs :
         /\ payments_df' = Concat(payments_df, NewPayment(name, p))
         /\ payments_file' = [exists |-> TRUE, rows |-> payments_df',
                              extra |-> extraCols]
         /\ df' = AppliedRooms(df, name, p)
         /\ lastOp' = PayOp(name, p, "ledger_write_failed")
    /\ pc' = "aborted"
    /\ UNCHANGED <<data_file, extraCols,
                   selected_room_for_history, history, monthly_profit,
                   dueAfterPayment>>

\* neither form was submitted in this run
NoSubmit ==
    /\ pc = "loaded"
    /\ lastOp' = [NoOp EXCEPT !.op = "nosubmit", !.outcome = "ok"]
    /\ pc' = "handled"
    /\ UNCHANGED <<data_file, payments_file, df, payments_df, extraCols,
                   selected_room_for_history, history, monthly_profit,
                   dueAfterPayment>>

(* ------------------------- Payment History ----------------------------- *)
RoomPayments(rows, name) == {i \in 1..Len(rows) : rows[i].room = name}

Orderings(S) ==
    {h \in [1..Cardinality(S) -> S] :
        \A a, b \in 1..Cardinality(S) : a # b => h[a] # h[b]}

HistoryOutcomesAscending(rows, name) ==
    {h \in Orderings(RoomPayments(rows, name)) :
        \A k \in 1..(Len(h) - 1) : DateLE(rows[h[k]].date, rows[h[k + 1]].date)}

\* payments_df[payments_df["Room"] == room].sort_values(by="Payment Date",
\* ascending=False): the default kind is "quicksort", which is not a stable
\* sort, so the order of rows with equal dates is any order.  The result is
\* the sequence of index labels of the selected rows.
HistoryOutcomes(rows, name) ==
    {h \in Orderings(RoomPayments(rows, name)) :
        \A k \in 1..(Len(h) - 1) : DateLE(rows[h[k + 1]].date, rows[h[k]].date)}

(* ---------------------- Monthly Profit Summary ------------------------- *)
MonthlyProfitColumnUndivided(rows) ==
    [i \in 1..Len(rows) |-> rows[i].amount]

\* payments_df['Monthly Profit'] = payments_df['Amount Paid'] / payments_df['Months Paid']
MonthlyProfitColumn(rows) ==
    [i \in 1..Len(rows) |-> rows[i].amount \div rows[i].months]

\* payments_df['Year-Month'] = payments_df['Payment Date'].dt.to_period('M')
YearMonth(date) == <<date.y, date.m>>

YearMonthColumn(rows) == [i \in 1..Len(rows) |-> YearMonth(rows[i].date)]

RECURSIVE GroupBySum(_, _, _)
\* groupby(keys)[vals].sum() over the first n rows
GroupBySum(keys, vals, n) ==
    IF n = 0 THEN EmptyMap
    ELSE LET acc == GroupBySum(keys, vals, n - 1)
             k   == keys[n]
         IN  IF k \in DOMAIN acc
             THEN [acc EXCEPT ![k] = @ + vals[n]]
             ELSE acc @@ (k :> vals[n])

MonthlyProfit(rows) ==
    GroupBySum(YearMonthColumn(rows), MonthlyProfitColumn(rows), Len(rows))

\* payments_df.groupby('Room')['Amount Paid'].sum()
TotalProfitPerRoom(rows) ==
    GroupBySum([i \in 1..Len(rows) |-> rows[i].room],
               [i \in 1..Len(rows) |-> rows[i].amount], Len(rows))

\* the rest of the run: history of the selected room, monthly summary
Render ==
    /\ pc = "handled"
    /\ \E name \in InputRooms :
         \E h \in HistoryOutcomes(payments_df, name) :
            /\ selected_room_for_history' = name
            /\ history' = h
    /\ IF payments_df = <<>>
       THEN /\ monthly_profit' = EmptyMap
            /\ extraCols' = extraCols
       ELSE /\ monthly_profit' = MonthlyProfit(payments_df)
            /\ extraCols' = TRUE
    /\ pc' = "done"
    /\ UNCHANGED <<data_file, payments_file, df, payments_df, lastOp,
                   dueAfterPayment>>

(* --------------------------- specifications ---------------------------- *)
Next ==
    \/ Load
    \/ EditRoom
    \/ EditRoomSaveFails
    \/ RecordPayment
    \/ RecordPaymentJournalFails
    \/ RecordPaymentLedgerFails
    \/ NoSubmit
    \/ Render

Spec == Init /\ [][Next]_vars

\* runs in which every write succeeds
NextOk ==
    \/ Load
    \/ EditRoom
    \/ RecordPayment
    \/ NoSubmit
    \/ Render

SpecOk == Init /\ [][NextOk]_vars

(* ------------------------------ properties ----------------------------- *)
\* total of "Amount Paid" in the journal rows of one room (0 when none)
TotalPaid(rows, name) ==
    LET t == TotalProfitPerRoom(rows)
    IN  IF name \in DOMAIN t THEN t[name] ELSE 0

PayStep == pc = "loaded" /\ lastOp'.op = "pay"

EditStep == pc = "loaded" /\ lastOp'.op = "edit"

\* C1: after any sequence of successful operations, every room's persisted
\* amount_paid equals the sum of the amounts of its journal records.
C1_AmountPaidEqualsJournalTotal ==
    data_file.exists =>
        \A i \in 1..Len(data_file.rows) :
            data_file.rows[i].paid =
                TotalPaid(payments_file.rows, data_file.rows[i].room)

\* C2: whatever the outcome of record_payment (success, failed journal
\* write, failed ledger write or stop between the writes), the persisted
\* journal total and the persisted amount_paid of every room change by the
\* same amount.
C2_RecordPaymentAtomic ==
    [][PayStep =>
        \A i \in 1..Len(data_file.rows) :
            TotalPaid(payments_file'.rows, data_file.rows[i].room)
              - TotalPaid(payments_file.rows, data_file.rows[i].room)
            = data_file'.rows[i].paid - data_file.rows[i].paid]_vars

\* C3: record_payment with amount <= 0 is rejected as InvalidInput and
\* leaves the persisted ledger and the persisted journal unchanged.
C3_NonPositiveAmountRejected ==
    [][(PayStep /\ lastOp'.amount <= 0) =>
        /\ lastOp'.outcome = "invalid_input"
        /\ data_file' = data_file
        /\ payments_file' = payments_file]_vars

\* C4: update_room_fields leaves amount_paid and due_date of every room as
\* they were.
C4_EditKeepsPaidAndDue ==
    [][EditStep =>
        \A i \in 1..Len(data_file.rows) :
            /\ data_file'.rows[i].paid = data_file.rows[i].paid
            /\ data_file'.rows[i].due = data_file.rows[i].due]_vars

\* C5: the due_date a room has after its (k+1)-th applied payment is never
\* earlier than the due_date it had after its k-th applied payment.
C5_DueDateNonDecreasingAcrossPayments ==
    [][\A i \in 1..NumRooms :
        dueAfterPayment[i] # NoDate =>
            DateLE(dueAfterPayment[i], dueAfterPayment'[i])]_vars

MonthIndex(date) == date.y * 12 + (date.m - 1)

\* C6: a successful record_payment adds exactly amount to the room's
\* amount_paid and moves its due_date exactly months calendar months on from
\* the room's current due_date, the day clamped to the target month's length.
C6_PaymentAddsAmountAndAdvancesDue ==
    [][(PayStep /\ lastOp'.outcome = "ok") =>
        LET i   == RoomIndex(data_file.rows, lastOp'.room)
            old == data_file.rows[i]
            new == data_file'.rows[i]
        IN  /\ new.paid = old.paid + lastOp'.amount
            /\ new.due.m \in 1..12
            /\ MonthIndex(new.due) = MonthIndex(old.due) + lastOp'.months
            /\ new.due.d = Min(old.due.d, DaysInMonth(new.due.y, new.due.m))]_vars

\* a payment of one month applied to a due date of 31 January 2024 has
\* just been written: the day was clamped to 29 February
C6_Witness ==
    /\ pc = "handled"
    /\ lastOp.op = "pay" /\ lastOp.outcome = "ok" /\ lastOp.months = 1
    /\ data_file.rows[RoomIndex(data_file.rows, lastOp.room)].due = D(2024, 2, 29)

IsPrefix(a, b) ==
    /\ Len(a) <= Len(b)
    /\ \A i \in 1..Len(a) : a[i] = b[i]

\* C7: the persisted journal is append-only: every step keeps the records
\* already there, unchanged and in order; a record_payment whose journal
\* write succeeds adds exactly one record at the end, and no other step adds
\* one; the summary's extra columns never reach the file.
C7_JournalAppendOnly ==
    [][/\ IsPrefix(payments_file.rows, payments_file'.rows)
       /\ payments_file.exists => payments_file'.exists
       /\ payments_file'.extra = FALSE
       /\ IF PayStep /\ lastOp'.outcome \in {"ok", "ledger_write_failed"}
          THEN /\ Len(payments_file'.rows) = Len(payments_file.rows) + 1
               /\ payments_file'.rows[Len(payments_file'.rows)] =
                    [room |-> lastOp'.room, date |-> lastOp'.date,
                     amount |-> lastOp'.amount, months |-> lastOp'.months]
          ELSE payments_file'.rows = payments_file.rows]_vars

\* a run that edited a room and rendered the summary (adding its columns to
\* the in-memory journal) while the file held two records; the second
\* record was appended to a non-empty journal
C7_Witness ==
    /\ pc = "done"
    /\ lastOp.op = "edit"
    /\ extraCols
    /\ Len(payments_file.rows) = 2

HistoryIsRoomPaymentsDescending ==
    LET rooms == RoomPayments(payments_df, selected_room_for_history)
    IN  /\ {history[k] : k \in 1..Len(history)} = rooms
        /\ Len(history) = Cardinality(rooms)
        /\ \A k \in 1..(Len(history) - 1) :
              DateLE(payments_df[history[k + 1]].date,
                     payments_df[history[k]].date)

\* C8 as stated: the history is the room's payments by payment_date
\* descending, and of two payments with the same date the one inserted later
\* comes first.
C8_HistoryTiesMostRecentFirst ==
    pc = "done" =>
        /\ HistoryIsRoomPaymentsDescending
        /\ \A k \in 1..(Len(history) - 1) :
              payments_df[history[k]].date = payments_df[history[k + 1]].date
                  => history[k] > history[k + 1]

\* C8 as amended: the history is exactly the room's payments, each once,
\* by payment_date descending (empty when the room has none); the order of
\* payments with the same date is not determined.
C8_HistoryDescending ==
    pc = "done" => HistoryIsRoomPaymentsDescending

\* a history of two payments with the same date, the earlier insert first
C8_Witness ==
    /\ pc = "done"
    /\ Len(history) = 2
    /\ payments_df[history[1]].date = payments_df[history[2]].date
    /\ history[1] < history[2]

RECURSIVE SumProfit(_, _)
SumProfit(rows, S) ==
    IF S = {} THEN 0
    ELSE LET i == CHOOSE x \in S : TRUE
         IN  rows[i].amount \div rows[i].months + SumProfit(rows, S \ {i})

\* C9: the monthly summary has one bucket per year-month in which a payment
\* is dated, and each bucket is the sum of amount / months_paid of the
\* payments dated in it; nothing goes to any other month.
C9_MonthlyProfitByPaymentMonth ==
    pc = "done" =>
        /\ DOMAIN monthly_profit =
              {YearMonth(payments_df[i].date) : i \in 1..Len(payments_df)}
        /\ \A ym \in DOMAIN monthly_profit :
              monthly_profit[ym] =
                  SumProfit(payments_df,
                            {i \in 1..Len(payments_df) :
                                YearMonth(payments_df[i].date) = ym})

\* one payment of 1,200,000 for 3 months dated 2024-03-10: {2024-03: 400,000}
C9_Witness ==
    /\ pc = "done"
    /\ Len(payments_df) = 1
    /\ payments_df[1].date = D(2024, 3, 10)
    /\ payments_df[1].amount = 1200000
    /\ payments_df[1].months = 3
    /\ DOMAIN monthly_profit = {<<2024, 3>>}
    /\ monthly_profit[<<2024, 3>>] = 400000

\* C10: loading an already-initialized ledger, after a run that completed,
\* returns the roster that run held, every field unchanged.
C10_ReloadReturnsRosterUnchanged ==
    [][(pc = "done" /\ data_file.exists /\ pc' = "loaded") => df' = df]_vars
====
